---------------------------- MODULE Spec2Model ----------------------------
(***************************************************************************)
(* A model of the reconciliation pipeline of src/recon_logic.py            *)
(* (run_recon_pipeline) as its caller src/main.py (pdf_recon) drives it:   *)
(* one invocation after another, each given the same two output paths.     *)
(*                                                                         *)
(* Text is a sequence of one-character strings, so that strip, upper,      *)
(* replace, substring search and float() are computed as Python computes   *)
(* them.  A missing cell (pandas NaN, pdfplumber None) is NA.  A Python    *)
(* float is an IEEE-754 double: a sign, a 53-bit mantissa (most            *)
(* significant bit first) and the exponent of its last bit.                *)
(***************************************************************************)
EXTENDS Integers, Sequences, FiniteSets, TLC

(***************************************************************************)
(* Text                                                                    *)
(***************************************************************************)
NA == <<"NaN">>

None == [none |-> TRUE]

isna(x) == x = NA

Front(s) == SubSeq(s, 1, Len(s) - 1)

Last(s) == s[Len(s)]

Range(s) == {s[i] : i \in 1..Len(s)}

LowerLetters ==
  <<"a","b","c","d","e","f","g","h","i","j","k","l","m",
    "n","o","p","q","r","s","t","u","v","w","x","y","z">>

UpperLetters ==
  <<"A","B","C","D","E","F","G","H","I","J","K","L","M",
    "N","O","P","Q","R","S","T","U","V","W","X","Y","Z">>

\* str.upper(), one character
UpperChar(c) ==
  IF \E i \in 1..Len(LowerLetters) : LowerLetters[i] = c
  THEN UpperLetters[CHOOSE i \in 1..Len(LowerLetters) : LowerLetters[i] = c]
  ELSE c

upper(s) == [i \in 1..Len(s) |-> UpperChar(s[i])]

IsSpace(c) == c \in {" ", "\t", "\n"}

RECURSIVE lstrip(_)
lstrip(s) == IF s # <<>> /\ IsSpace(Head(s)) THEN lstrip(Tail(s)) ELSE s

RECURSIVE rstrip(_)
rstrip(s) == IF s # <<>> /\ IsSpace(Last(s)) THEN rstrip(Front(s)) ELSE s

\* str.strip()
strip(s) == rstrip(lstrip(s))

\* sub in s
contains(s, sub) ==
  \E i \in 0..(Len(s) - Len(sub)) : SubSeq(s, i + 1, i + Len(sub)) = sub

startswith(s, pre) == Len(s) >= Len(pre) /\ SubSeq(s, 1, Len(pre)) = pre

\* str.replace(old, '') for a one-character old
RemoveChar(s, c) == SelectSeq(s, LAMBDA d : d # c)

\* str.replace(old, new) for one-character old and new
ReplaceChar(s, old, new) == [i \in 1..Len(s) |-> IF s[i] = old THEN new ELSE s[i]]

\* str(x) of a cell: a missing cell prints as nan
str(x) == IF isna(x) THEN <<"n","a","n">> ELSE x

\* safe_upper_strip
safe_upper_strip(x) == IF ~isna(x) THEN upper(strip(str(x))) ELSE <<>>

(***************************************************************************)
(* Floats                                                                  *)
(***************************************************************************)
MantissaBits == 53

DigitChars == <<"0","1","2","3","4","5","6","7","8","9">>

IsDigit(c) == \E i \in 1..10 : DigitChars[i] = c

DigitVal(c) == (CHOOSE i \in 1..10 : DigitChars[i] = c) - 1

AllDigits(s) == \A i \in 1..Len(s) : IsDigit(s[i])

RECURSIVE DigitsVal(_)
DigitsVal(s) == IF s = <<>> THEN 0 ELSE 10 * DigitsVal(Front(s)) + DigitVal(Last(s))

RECURSIVE Pow10(_)
Pow10(k) == IF k = 0 THEN 1 ELSE 10 * Pow10(k - 1)

\* The decimal literal grammar of float(): [sign] digits [. [digits]] or
\* [sign] . digits.  [ok |-> FALSE] is ValueError.
ParseDecimal(s) ==
  LET signed == s # <<>> /\ Head(s) \in {"+", "-"}
      neg    == s # <<>> /\ Head(s) = "-"
      u      == IF signed THEN Tail(s) ELSE s
      dots   == {i \in 1..Len(u) : u[i] = "."}
  IN  IF dots = {}
      THEN IF u # <<>> /\ AllDigits(u)
           THEN [ok |-> TRUE, neg |-> neg, num |-> DigitsVal(u), scale |-> 0]
           ELSE [ok |-> FALSE]
      ELSE LET p  == CHOOSE i \in dots : TRUE
               ip == SubSeq(u, 1, p - 1)
               fp == SubSeq(u, p + 1, Len(u))
           IN  IF Cardinality(dots) = 1 /\ AllDigits(ip) /\ AllDigits(fp)
                  /\ (ip # <<>> \/ fp # <<>>)
               THEN [ok |-> TRUE, neg |-> neg, num |-> DigitsVal(ip \o fp),
                     scale |-> Len(fp)]
               ELSE [ok |-> FALSE]

\* The k-bit numeral of v < 2^k
FixedBits(v, k) == [i \in 1..k |-> (v \div 2^(k - i)) % 2]

BitLen(n) == Cardinality({k \in 0..30 : 2^k <= n})

NatBits(n) == FixedBits(n, BitLen(n))

RECURSIVE BitsVal(_)
BitsVal(b) == IF b = <<>> THEN 0 ELSE 2 * BitsVal(Front(b)) + Last(b)

Zeros(n) == [i \in 1..n |-> 0]

StripZeros(b) ==
  LET ones == {i \in 1..Len(b) : b[i] = 1}
  IN  IF ones = {} THEN <<>>
      ELSE SubSeq(b, CHOOSE i \in ones : \A j \in ones : i <= j, Len(b))

\* x + y + c on bit sequences of one length, a limb at a time
RECURSIVE AddBits(_, _, _)
AddBits(x, y, c) ==
  IF x = <<>> THEN (IF c = 1 THEN <<1>> ELSE <<>>)
  ELSE LET n == Len(x)
           k == IF n < 15 THEN n ELSE 15
           s == BitsVal(SubSeq(x, n - k + 1, n)) + BitsVal(SubSeq(y, n - k + 1, n)) + c
       IN  AddBits(SubSeq(x, 1, n - k), SubSeq(y, 1, n - k), s \div 2^k)
             \o FixedBits(s % 2^k, k)

\* x - y - c on bit sequences of one length, x >= y, a limb at a time
RECURSIVE SubBits(_, _, _)
SubBits(x, y, c) ==
  IF x = <<>> THEN <<>>
  ELSE LET n == Len(x)
           k == IF n < 15 THEN n ELSE 15
           d == BitsVal(SubSeq(x, n - k + 1, n)) - BitsVal(SubSeq(y, n - k + 1, n)) - c
       IN  SubBits(SubSeq(x, 1, n - k), SubSeq(y, 1, n - k), IF d < 0 THEN 1 ELSE 0)
             \o FixedBits(IF d < 0 THEN d + 2^k ELSE d, k)

\* b + 1 on a bit sequence
Inc(b) == AddBits(b, Zeros(Len(b)), 1)

\* x >= y on bit sequences of one length
GeqBits(x, y) ==
  LET diff == {i \in 1..Len(x) : x[i] # y[i]}
  IN  diff = {} \/ x[CHOOSE i \in diff : \A j \in diff : i <= j] = 1

FloatZero == [neg |-> FALSE, m |-> <<>>, e |-> 0]

\* The double nearest to bits * 2^e (round half to even), bits an exact
\* binary numeral of any length and sticky saying that a nonzero tail below
\* its last bit was cut off.
RoundBits(neg, bits, e, sticky) ==
  LET b == StripZeros(bits)
      n == Len(b)
  IN  IF b = <<>> THEN FloatZero
      ELSE IF n <= MantissaBits
      THEN [neg |-> neg, m |-> b \o Zeros(MantissaBits - n),
            e |-> e - (MantissaBits - n)]
      ELSE LET m    == SubSeq(b, 1, MantissaBits)
               rb   == b[MantissaBits + 1]
               rest == sticky \/ \E i \in (MantissaBits + 2)..n : b[i] = 1
               up   == rb = 1 /\ (rest \/ m[MantissaBits] = 1)
               m2   == IF up THEN Inc(m) ELSE m
               e2   == e + (n - MantissaBits)
           IN  IF Len(m2) > MantissaBits
               THEN [neg |-> neg, m |-> SubSeq(m2, 1, MantissaBits), e |-> e2 + 1]
               ELSE [neg |-> neg, m |-> m2, e |-> e2]

\* The first n chunks of ten bits of the binary fraction r/d (r < d), and
\* the remainder left
RECURSIVE FracBits(_, _, _)
FracBits(r, d, n) ==
  IF n = 0 THEN [bits |-> <<>>, rem |-> r]
  ELSE LET t == FracBits((r * 1024) % d, d, n - 1)
       IN  [bits |-> FixedBits((r * 1024) \div d, 10) \o t.bits,
            rem |-> t.rem]

\* float() of the decimal num / 10^scale: correctly rounded
DecimalToFloat(neg, num, scale) ==
  LET d  == Pow10(scale)
      f  == FracBits(num % d, d, 12)
  IN  RoundBits(neg, NatBits(num \div d) \o f.bits, 0 - Len(f.bits), f.rem # 0)

\* The two mantissas as numerals of one length over one last-bit exponent
Align(a, b) ==
  LET e0 == IF a.e < b.e THEN a.e ELSE b.e
      x  == a.m \o Zeros(a.e - e0)
      y  == b.m \o Zeros(b.e - e0)
      n  == IF Len(x) > Len(y) THEN Len(x) ELSE Len(y)
  IN  [e |-> e0, x |-> Zeros(n - Len(x)) \o x, y |-> Zeros(n - Len(y)) \o y]

IsZero(a) == a.m = <<>>

\* The exact value a - b: a sign and a binary numeral over exponent e
ExactSub(a, b) ==
  IF IsZero(b) THEN [neg |-> a.neg, bits |-> a.m, e |-> a.e]
  ELSE IF IsZero(a) THEN [neg |-> ~b.neg, bits |-> b.m, e |-> b.e]
  ELSE LET al == Align(a, b)
       IN  IF a.neg # b.neg
           THEN [neg |-> a.neg, bits |-> AddBits(al.x, al.y, 0), e |-> al.e]
           ELSE IF GeqBits(al.x, al.y)
           THEN [neg |-> a.neg, bits |-> SubBits(al.x, al.y, 0), e |-> al.e]
           ELSE [neg |-> ~a.neg, bits |-> SubBits(al.y, al.x, 0), e |-> al.e]

\* a - b as Python computes it: the exact difference, rounded
FloatSub(a, b) ==
  LET d == ExactSub(a, b) IN RoundBits(d.neg, d.bits, d.e, FALSE)

\* abs(a)
FloatAbs(a) == [a EXCEPT !.neg = FALSE]

\* a < b for floats that are not negative
FloatLess(a, b) ==
  IF IsZero(b) THEN FALSE
  ELSE IF IsZero(a) THEN TRUE
  ELSE LET al == Align(a, b) IN ~GeqBits(al.x, al.y)

\* safe_float_val: None for a missing, blank or unparseable cell
safe_float_val(x) ==
  IF isna(x) \/ strip(str(x)) = <<>> THEN None
  ELSE LET p == ParseDecimal(strip(RemoveChar(str(x), ",")))
       IN  IF p.ok THEN DecimalToFloat(p.neg, p.num, p.scale) ELSE None

\* The literal 0.01 of the tolerance test
Tolerance == DecimalToFloat(FALSE, 1, 2)

\* abs(settled_amt - balance) < 0.01
WithinTolerance(settled_amt, balance) ==
  FloatLess(FloatAbs(FloatSub(settled_amt, balance)), Tolerance)

(***************************************************************************)
(* Validation helpers                                                      *)
(***************************************************************************)
LowerChar(c) ==
  IF \E i \in 1..Len(UpperLetters) : UpperLetters[i] = c
  THEN LowerLetters[CHOOSE i \in 1..Len(UpperLetters) : UpperLetters[i] = c]
  ELSE c

lower(s) == [i \in 1..Len(s) |-> LowerChar(s[i])]

\* What raise leaves behind: the exception's type and the input it names
Raised(type, what) == [type |-> type, what |-> what]

NoError == Raised("", "")

\* _require_exists on a path whose stat() is p: the error raised, or NoError
_require_exists(p, what) ==
  IF ~p.exists THEN Raised("FileNotFoundError", what)
  ELSE IF ~p.is_file THEN Raised("ValueError", what)
  ELSE NoError

\* _require_suffix
_require_suffix(p, allowed_suffixes, what) ==
  IF lower(p.suffix) \notin {lower(a) : a \in allowed_suffixes}
  THEN Raised("ValueError", what)
  ELSE NoError

\* _require_parent_writable without the os.access test
_require_parent_exists(d, what) ==
  IF ~d.exists THEN Raised("FileNotFoundError", what) ELSE NoError

\* _require_parent_writable on an output path whose parent's stat() is d
_require_parent_writable(d, what) ==
  IF ~d.exists THEN Raised("FileNotFoundError", what)
  ELSE IF ~d.writable THEN Raised("PermissionError", what)
  ELSE NoError

\* The first error of a sequence of checks made in order
FirstError(checks) ==
  LET bad == {i \in 1..Len(checks) : checks[i] # NoError}
  IN  IF bad = {} THEN NoError
      ELSE checks[CHOOSE i \in bad : \A j \in bad : i <= j]

PdfSuffixes == {<<".","p","d","f">>}

ExcelSuffixes ==
  {<<".","x","l","s","x">>, <<".","x","l","s">>, <<".","x","l","s","m">>}

\* The checks of one input file: it exists, is a file, has an allowed suffix
CheckInput(p, allowed_suffixes, what) ==
  FirstError(<<_require_exists(p, what), _require_suffix(p, allowed_suffixes, what)>>)

\* The validations of run_recon_pipeline, in the order the code makes them
Validations(e) ==
  FirstError(
    <<CheckInput(e.pdf_path, PdfSuffixes, "PDF path")>>
    \o <<IF Len(e.bank_file_paths) = 0
         THEN Raised("ValueError", "bank_file_paths") ELSE NoError>>
    \o [i \in 1..Len(e.bank_file_paths) |->
          CheckInput(e.bank_file_paths[i], ExcelSuffixes, "Bank statement")]
    \o <<CheckInput(e.mis_file_path, ExcelSuffixes, "MIS file"),
         CheckInput(e.outstanding_file_path, ExcelSuffixes, "Outstanding report file"),
         _require_parent_writable(e.consolidated_parent, "Consolidated output"),
         _require_parent_writable(e.updated_parent, "Updated outstanding output")>>)

(***************************************************************************)
(* Tables                                                                  *)
(***************************************************************************)
RECURSIVE Flatten(_)
Flatten(ss) == IF ss = <<>> THEN <<>> ELSE Head(ss) \o Flatten(Tail(ss))

\* Series.unique(): the distinct values in the order first seen
unique(s) ==
  LET first == {i \in 1..Len(s) : \A j \in 1..(i - 1) : s[j] # s[i]}
      nth(k) == CHOOSE i \in first : Cardinality({j \in first : j < i}) = k - 1
  IN  [k \in 1..Cardinality(first) |-> s[nth(k)]]

c_XUTR == <<"/","X","U","T","R","/">>

c_Msg_Refer_No == <<"M","s","g","_","R","e","f","e","r","_","N","o">>

c_Refer_No == <<"R","e","f","e","r","_","N","o">>

\* all_rows: the tables of the pages, in page order; a page without a
\* table gives nothing
all_rows(pages) == Flatten(SelectSeq(pages, LAMBDA table : table # <<>>))

\* The column names of pdf_df
NormalizeColumn(c) == ReplaceChar(ReplaceChar(strip(str(c)), ".", "_"), " ", "_")

ColumnIndex(columns, name) ==
  CHOOSE i \in 1..Len(columns) :
    columns[i] = name /\ \A j \in 1..(i - 1) : columns[j] # name

\* The '^/XUTR/' replacement
StripMarker(ref) ==
  IF startswith(ref, c_XUTR) THEN SubSeq(ref, Len(c_XUTR) + 1, Len(ref)) ELSE ref

\* A statement row is kept when its Refer_No is there, not blank, and
\* holds the marker
KeepsStatementRow(row) ==
  /\ ~isna(row.Refer_No) /\ strip(row.Refer_No) # <<>>
  /\ contains(row.Refer_No, c_XUTR)

\* pdf_df after the filter, from the rows under the header
FilterStatement(columns, rows) ==
  LET msg == ColumnIndex(columns, c_Msg_Refer_No)
      ref == ColumnIndex(columns, c_Refer_No)
      df  == [i \in 1..Len(rows) |->
                [Msg_Refer_No |-> rows[i][msg], Refer_No |-> rows[i][ref]]]
      kept == SelectSeq(df, KeepsStatementRow)
  IN  [i \in 1..Len(kept) |->
         [kept[i] EXCEPT !.Refer_No = StripMarker(kept[i].Refer_No)]]

\* bank_df: the files' rows in list order, Description cast to str
LoadBank(bank_files) ==
  LET rows == Flatten(bank_files)
  IN  [i \in 1..Len(rows) |-> [rows[i] EXCEPT !.Description = str(rows[i].Description)]]

\* Whether the loop body of the matcher skips msg_ref
IsBlankRef(msg_ref) == isna(msg_ref) \/ strip(str(msg_ref)) = <<>>

\* pdf_hits_df: per message reference in first-seen order, the ledger rows
\* whose Description holds it, tagged with it
MatchLedger(pdf_df, bank_df) ==
  LET refs == unique(SelectSeq([i \in 1..Len(pdf_df) |-> pdf_df[i].Msg_Refer_No],
                               LAMBDA m : ~isna(m)))
      used == SelectSeq(refs, LAMBDA m : ~IsBlankRef(m))
  IN  Flatten([k \in 1..Len(used) |->
        LET hits == SelectSeq(bank_df, LAMBDA b : contains(b.Description, str(used[k])))
        IN  [j \in 1..Len(hits) |->
               [Transaction_ID |-> hits[j].Transaction_ID,
                Description |-> hits[j].Description, Msg_Ref |-> used[k]]]])

\* merged_pdf: the hits merged with pdf_df on the tag.  An inner merge
\* keeps the order of the left rows, each with its matches in right order.
MergeStatement(pdf_hits_df, pdf_df) ==
  Flatten([i \in 1..Len(pdf_hits_df) |->
    LET h    == pdf_hits_df[i]
        hits == SelectSeq(pdf_df, LAMBDA s : h.Msg_Ref = s.Msg_Refer_No)
    IN  [j \in 1..Len(hits) |->
           [Transaction_ID |-> h.Transaction_ID, Description |-> h.Description,
            Msg_Ref |-> h.Msg_Ref, Msg_Refer_No |-> hits[j].Msg_Refer_No,
            Refer_No |-> hits[j].Refer_No]]])

\* mis_clean
CleanMis(mis_df) == SelectSeq(mis_df, LAMBDA m : ~isna(m.UTR_No) /\ strip(m.UTR_No) # <<>>)

\* consolidated_result: merged_pdf merged with mis_clean on the reference
LinkMis(merged_pdf, mis_clean) ==
  Flatten([i \in 1..Len(merged_pdf) |->
    LET p    == merged_pdf[i]
        hits == SelectSeq(mis_clean, LAMBDA m : p.Refer_No = m.UTR_No)
    IN  [j \in 1..Len(hits) |->
           [Transaction_ID |-> p.Transaction_ID, Description |-> p.Description,
            Msg_Ref |-> p.Msg_Ref, Msg_Refer_No |-> p.Msg_Refer_No,
            Refer_No |-> p.Refer_No, UTR_No |-> hits[j].UTR_No,
            Claim_Number |-> hits[j].Claim_Number,
            In_Patient_Number |-> hits[j].In_Patient_Number,
            Patient_Name |-> hits[j].Patient_Name,
            Settled_Amount |-> hits[j].Settled_Amount]]])

(***************************************************************************)
(* The outstanding annotator                                               *)
(***************************************************************************)
\* The comprehension keeping the first row of a key instead of the last
inpat_index_first(rows) ==
  LET key(i) == safe_upper_strip(rows[i].In_Patient_Number)
  IN  [k \in {key(i) : i \in 1..Len(rows)} |->
         rows[CHOOSE i \in 1..Len(rows) :
                key(i) = k /\ \A j \in 1..(i - 1) : key(j) # k].Claim_Number]

\* A dict comprehension over the rows in order: a later row with the same
\* key replaces the earlier one
RECURSIVE inpat_index(_)
inpat_index(rows) ==
  IF rows = <<>> THEN <<>>
  ELSE (safe_upper_strip(Last(rows).In_Patient_Number) :> Last(rows).Claim_Number)
         @@ inpat_index(Front(rows))

RECURSIVE patnm_index(_)
patnm_index(rows) ==
  IF rows = <<>> THEN <<>>
  ELSE (safe_upper_strip(Last(rows).Patient_Name) :> Last(rows).Claim_Number)
         @@ patnm_index(Front(rows))

RECURSIVE settled_index(_)
settled_index(rows) ==
  IF rows = <<>> THEN <<>>
  ELSE (safe_upper_strip(Last(rows).Claim_Number) :> safe_float_val(Last(rows).Settled_Amount))
         @@ settled_index(Front(rows))

\* dict.get
get(d, k) == IF k \in DOMAIN d THEN d[k] ELSE None

\* claim_cr == claim_pat: a missing claim number (NaN) equals nothing
PyEq(a, b) == ~isna(a) /\ ~isna(b) /\ a = b

c_Claim_No == <<"C","l","a","i","m"," ","N","o">>

c_CR_No == <<"C","R"," ","N","o">>

c_Patient_Name == <<"P","a","t","i","e","n","t"," ","N","a","m","e">>

c_Balance == <<"B","a","l","a","n","c","e">>

cyan_fill == "00FFFF"

NoFill == "none"

Cell(v) == [value |-> v, fill |-> NoFill]

\* The header of a worksheet: the values of its first row
HeaderOf(ws) == [c \in 1..Len(ws[1]) |-> ws[1][c].value]

\* The sheet has the four columns the annotator needs
HasColumns(ws) ==
  {c_Claim_No, c_CR_No, c_Patient_Name, c_Balance} \subseteq Range(HeaderOf(ws))

\* df.iterrows() index idx is read from the sheet row under the header
DfCell(ws, idx, name) == ws[idx + 2][ColumnIndex(HeaderOf(ws), name)].value

\* The rows the loop visits: Claim No missing or blank
IsBlankClaim(v) == isna(v) \/ strip(v) = <<>>

BlankRows(ws) == {idx \in 0..(Len(ws) - 2) : IsBlankClaim(DfCell(ws, idx, c_Claim_No))}

\* The comparison of the two lookups left out
SameClaimUnchecked(claim_cr, claim_pat) == TRUE

\* The two lookups agree
SameClaim(claim_cr, claim_pat) == PyEq(claim_cr, claim_pat)

\* match_claim of one visited row: the claim number, or None
MatchClaim(crno, patnm, balance, inpat, patnm_to, settled) ==
  IF crno \in DOMAIN inpat /\ patnm \in DOMAIN patnm_to
  THEN LET claim_cr    == inpat[crno]
           claim_pat   == patnm_to[patnm]
           settled_amt == get(settled, claim_cr)
       IN  IF SameClaim(claim_cr, claim_pat)
              /\ settled_amt # None /\ balance # None
              /\ WithinTolerance(settled_amt, balance)
           THEN claim_cr ELSE None
  ELSE None

RowMatch(ws, idx, inpat, patnm_to, settled) ==
  MatchClaim(safe_upper_strip(DfCell(ws, idx, c_CR_No)),
             safe_upper_strip(DfCell(ws, idx, c_Patient_Name)),
             safe_float_val(DfCell(ws, idx, c_Balance)),
             inpat, patnm_to, settled)

\* if match_claim: None and the empty string are false
Truthy(m) == m # None /\ m # <<>>

\* The header row forgotten
excel_row_off(idx) == idx + 1

\* excel_row = idx + 2
excel_row(idx) == idx + 2

\* The rows of one sheet that the loop updates
Updates(ws, inpat, patnm_to, settled) ==
  IF ~HasColumns(ws) THEN {}
  ELSE {idx \in BlankRows(ws) : Truthy(RowMatch(ws, idx, inpat, patnm_to, settled))}

\* The worksheet after the loop: each update written to its Claim No cell
\* and filled
AnnotateSheet(ws, inpat, patnm_to, settled) ==
  LET upd == Updates(ws, inpat, patnm_to, settled)
      col == ColumnIndex(HeaderOf(ws), c_Claim_No)
  IN  [r \in 1..Len(ws) |->
        IF \E idx \in upd : excel_row(idx) = r
        THEN LET idx == CHOOSE i \in upd : excel_row(i) = r
             IN  [ws[r] EXCEPT ![col] =
                    [value |-> RowMatch(ws, idx, inpat, patnm_to, settled),
                     fill |-> cyan_fill]]
        ELSE ws[r]]

(***************************************************************************)
(* The inputs an invocation is given.  Each invocation draws one suite, a   *)
(* family of inputs that is rich in one input and small in the others.      *)
(***************************************************************************)
MaxStmtRows == 2

MaxLedgerRows == 2

MaxMisRows == 2

MaxOutRows == 2

\* The sequences over S of length at most n
SeqsUpTo(S, n) == UNION {[1..k -> S] : k \in 0..n}

t_M1 == <<"M","1">>

t_R1 == <<"R","1">>

t_C1 == <<"C","1">>

t_C2 == <<"C","2">>

t_IP1 == <<"I","P","1">>

t_JOHN == <<"J","O","H","N">>

t_MARY == <<"M","A","R","Y">>

t_500 == <<"5","0","0">>

t_700 == <<"7","0","0">>

\* stat() of an input path
OkFile(suffix) == [exists |-> TRUE, is_file |-> TRUE, suffix |-> suffix]

Missing == [exists |-> FALSE, is_file |-> FALSE, suffix |-> <<>>]

Directory == [exists |-> TRUE, is_file |-> FALSE, suffix |-> <<>>]

s_pdf == <<".","p","d","f">>

s_PDF == <<".","P","D","F">>

s_xlsx == <<".","x","l","s","x">>

s_XLS == <<".","X","L","S">>

s_csv == <<".","c","s","v">>

OkDir == [exists |-> TRUE, writable |-> TRUE]

DirStates == {OkDir, [exists |-> TRUE, writable |-> FALSE],
              [exists |-> FALSE, writable |-> FALSE]}

OkEnv ==
  [pdf_path |-> OkFile(s_pdf), bank_file_paths |-> <<OkFile(s_xlsx)>>,
   mis_file_path |-> OkFile(s_xlsx), outstanding_file_path |-> OkFile(s_xlsx),
   consolidated_parent |-> OkDir, updated_parent |-> OkDir]

Envs ==
  [pdf_path : {OkFile(s_PDF), OkFile(s_xlsx), Missing, Directory},
   bank_file_paths : {<<>>, <<OkFile(s_xlsx)>>, <<OkFile(s_XLS), OkFile(s_csv)>>,
                      <<OkFile(s_xlsx), Missing>>},
   mis_file_path : {OkFile(s_xlsx), OkFile(s_csv), Missing},
   outstanding_file_path : {OkFile(s_XLS), OkFile(s_pdf), Directory},
   consolidated_parent : DirStates,
   updated_parent : {OkDir, [exists |-> TRUE, writable |-> FALSE]}]

\* PDF pages.  Each table row is <<message reference, reference number>>
\* under the header PdfHeader, whose names normalize to the required ones.
PdfHeader == <<<<"M","s","g",".","R","e","f","e","r"," ","N","o">>,
               <<" ","R","e","f","e","r",".","N","o">>>>

BadHeader == <<c_Msg_Refer_No, <<"R","e","f">>>>

StmtBase == <<t_M1, c_XUTR \o t_R1>>

StmtRows ==
  {StmtBase,
   <<t_M1, t_R1>>,
   <<t_M1, <<"X">> \o c_XUTR \o t_R1>>,
   <<<<"a","n">>, c_XUTR \o t_R1>>,
   <<NA, c_XUTR \o t_R1>>,
   <<<<" ">>, c_XUTR \o t_R1>>,
   <<t_M1, NA>>}

PdfBase == <<<<PdfHeader, StmtBase>>>>

PdfFew ==
  {PdfBase,
   <<<<PdfHeader, StmtBase>>, <<>>, <<StmtBase>>>>,
   <<<<PdfHeader, <<<<"a","n">>, c_XUTR \o t_R1>>>>>>}

PdfRich ==
  {<<<<PdfHeader>> \o rows>> : rows \in SeqsUpTo(StmtRows, MaxStmtRows)}
    \cup {<<>>, <<<<>>>>, <<<<>>, <<>>>>, <<<<BadHeader, StmtBase>>>>}

\* Bank files.  A ledger row's Transaction Amount(INR) is carried through
\* unread and is left out.
Ledger(tid, desc) == [Transaction_ID |-> tid, Description |-> desc]

LedgerBase == Ledger("T1", <<"p"," ">> \o t_M1 \o <<" ","x">>)

LedgerRows ==
  {LedgerBase, Ledger("T2", NA), Ledger("T3", <<"m","1">>)}

BankBase == <<<<LedgerBase>>>>

BankFew == {BankBase, <<<<LedgerBase>>, <<LedgerBase>>>>}

BankRich ==
  {<<rows>> : rows \in SeqsUpTo(LedgerRows, MaxLedgerRows)}
    \cup {<<<<a>>, <<b>>>> : a \in LedgerRows, b \in LedgerRows}

\* MIS rows.  The columns the pipeline never reads are left out.
Mis(utr, claim, inpat, name, settled) ==
  [UTR_No |-> utr, Claim_Number |-> claim, In_Patient_Number |-> inpat,
   Patient_Name |-> name, Settled_Amount |-> settled]

MisBase == Mis(t_R1, t_C1, t_IP1, t_JOHN, t_500)

MisFew == {<<MisBase>>, <<MisBase, MisBase>>}

MisJoinRows ==
  {MisBase,
   Mis(NA, t_C1, t_IP1, t_JOHN, t_500),
   Mis(<<" ">>, t_C1, t_IP1, t_JOHN, t_500),
   Mis(<<"X">> \o c_XUTR \o t_R1, t_C2, t_IP1, t_JOHN, t_700)}

MisJoin == SeqsUpTo(MisJoinRows, MaxMisRows)

MisIndexRows ==
  {MisBase,
   Mis(t_R1, t_C2, t_IP1, t_JOHN, t_700),
   Mis(t_R1, t_C1, <<" ","i","p","1">>, <<"j","o","h","n"," ">>, t_500 \o <<".","0","0">>),
   Mis(t_R1, <<"c","1">>, t_IP1, t_JOHN, t_500),
   Mis(t_R1, t_C2, t_IP1, t_MARY, t_500),
   Mis(t_R1, NA, t_IP1, t_JOHN, t_500),
   Mis(t_R1, t_C1, <<"I","P","2">>, t_MARY, <<"a","b","c">>)}

MisIndex == SeqsUpTo(MisIndexRows, MaxMisRows)

MisRowsFew ==
  {<<MisBase>>,
   <<MisBase, Mis(t_R1, t_C2, t_IP1, t_MARY, t_500)>>,
   <<Mis(t_R1, <<"c","1">>, t_IP1, t_JOHN, t_500)>>}

Amounts ==
  {t_500, t_500 \o <<".","0","0">>, t_500 \o <<".","0","1">>,
   t_500 \o <<".","0","2">>, t_500 \o <<".","0","0","9","9","9","9">>,
   <<"4","9","9",".","9","9">>, <<"1",",","5","0","0",".","0","1">>,
   <<"1",",","5","0","0">>, <<"1","0","0",".","0","1">>, <<"1","0","0">>,
   <<"0",".","0","1">>, <<"0">>, <<"-","5","0","0">>, <<" ","5","0","0"," ">>,
   <<"a","b","c">>, <<" ">>, NA}

\* Outstanding workbooks: a sequence of sheets, a sheet a sequence of rows
\* of cells, its first row the header
OutHeader == <<c_CR_No, c_Patient_Name, c_Claim_No, c_Balance>>

OutRow(crno, name, claim, balance) == <<crno, name, claim, balance>>

OutBase == OutRow(<<"i","p","1">>, <<"j","o","h","n">>, NA, t_500 \o <<".","0","0">>)

OutRows ==
  {OutBase,
   OutRow(t_IP1, t_JOHN, <<"X","9">>, t_500),
   OutRow(t_IP1, t_JOHN, <<" ">>, t_500),
   OutRow(t_IP1, t_MARY, NA, t_500),
   OutRow(<<"I","P","9">>, t_JOHN, NA, t_500),
   OutRow(t_IP1, t_JOHN, NA, t_500 \o <<".","0","2">>),
   OutRow(NA, NA, NA, NA),
   OutRow(t_IP1, t_JOHN, NA, <<"a","b","c">>)}

Sheet(header, rows) ==
  [r \in 1..(Len(rows) + 1) |->
     [c \in 1..Len(header) |-> Cell(IF r = 1 THEN header[c] ELSE rows[r - 1][c])]]

\* A sheet without the Balance column, and one with the columns in
\* another order
SheetNoBalance ==
  Sheet(<<c_Claim_No, c_CR_No, c_Patient_Name>>, <<<<NA, t_IP1, t_JOHN>>>>)

SheetReordered ==
  Sheet(<<c_Balance, c_Claim_No, c_Patient_Name, c_CR_No>>,
        <<<<t_500, <<"K","7">>, t_JOHN, t_IP1>>, <<t_500, NA, t_JOHN, t_IP1>>>>)

OutWbBase == <<Sheet(OutHeader, <<OutBase>>)>>

OutFew ==
  {OutWbBase,
   <<Sheet(OutHeader, <<OutRow(t_IP1, t_JOHN, NA, t_700)>>)>>,
   <<Sheet(OutHeader, <<OutBase, OutRow(t_IP1, t_MARY, NA, t_500)>>)>>,
   <<SheetNoBalance, SheetReordered>>}

OutRich ==
  {<<Sheet(OutHeader, rows)>> \o more :
     rows \in SeqsUpTo(OutRows, MaxOutRows),
     more \in {<<>>, <<SheetNoBalance>>, <<SheetReordered>>}}

OutAmounts == {<<Sheet(OutHeader, <<OutRow(t_IP1, t_JOHN, NA, b)>>)>> : b \in Amounts}

MisAmounts == {<<Mis(t_R1, t_C1, t_IP1, t_JOHN, a)>> : a \in Amounts}

Suites == {"pre", "stmt", "ledger", "claims", "index", "rows", "amount"}

EnvChoices(s) == IF s = "pre" THEN Envs ELSE {OkEnv}

PdfChoices(s) ==
  CASE s = "stmt" -> PdfRich
    [] s \in {"ledger", "claims"} -> PdfFew
    [] OTHER -> {PdfBase}

BankChoices(s) ==
  CASE s = "ledger" -> BankRich
    [] s \in {"stmt", "claims"} -> BankFew
    [] OTHER -> {BankBase}

MisChoices(s) ==
  CASE s = "claims" -> MisJoin
    [] s \in {"stmt", "ledger"} -> MisFew
    [] s = "index" -> MisIndex
    [] s = "rows" -> MisRowsFew
    [] s = "amount" -> MisAmounts
    [] OTHER -> {<<MisBase>>}

OutChoices(s) ==
  CASE s = "index" -> OutFew
    [] s = "rows" -> OutRich
    [] s = "amount" -> OutAmounts
    [] OTHER -> {OutWbBase}

(***************************************************************************)
(* The state                                                               *)
(***************************************************************************)
consolidated_output_path == "outputs/joined_output.xlsx"

updated_outstanding_path == "outputs/outstanding_report_UPDATED.xlsx"

NoPath == "None"

VARIABLES
  files,                \* per output path: "absent", "old" (an earlier
                        \* invocation wrote it) or "new" (this one did)
  pc,                   \* where the invocation stands
  error,                \* the exception raised, or NoError
  suite,                \* the family this invocation's inputs come from
  env,                  \* stat() of the paths the invocation is given
  parsed,               \* the inputs parsed so far
  pdf,                  \* the tables pdfplumber extracts, page by page
  pdf_df,
  bank_files,           \* the rows of each bank file
  bank_df,
  pdf_hits_df,
  mis_df,
  consolidated_result,
  outstanding,          \* the outstanding workbook as it is on disk
  wb,                   \* the workbook openpyxl holds
  inpat_to_claim,
  patnm_to_claim,
  claim_to_settled_amount,
  update_found,
  result,
  response              \* what the caller last answered

vars ==
  <<files, pc, error, suite, env, parsed, pdf, pdf_df, bank_files, bank_df,
    pdf_hits_df, mis_df, consolidated_result, outstanding, wb, inpat_to_claim,
    patnm_to_claim, claim_to_settled_amount, update_found, result, response>>

NoResult == [matches_found |-> 0, consolidated_written |-> NoPath,
             updated_outstanding_written |-> NoPath]

NoResponse == [status |-> 0, matches_found |-> 0, artifacts |-> <<>>]

Init ==
  /\ files = [p \in {consolidated_output_path, updated_outstanding_path} |-> "absent"]
  /\ pc = "idle"
  /\ suite = "pre"
  /\ env = OkEnv
  /\ error = NoError
  /\ parsed = {}
  /\ pdf = <<>>
  /\ pdf_df = <<>>
  /\ bank_files = <<>>
  /\ bank_df = <<>>
  /\ pdf_hits_df = <<>>
  /\ mis_df = <<>>
  /\ consolidated_result = <<>>
  /\ outstanding = <<>>
  /\ wb = <<>>
  /\ inpat_to_claim = <<>>
  /\ patnm_to_claim = <<>>
  /\ claim_to_settled_amount = <<>>
  /\ update_found = FALSE
  /\ result = NoResult
  /\ response = NoResponse

\* os.path.exists
exists(path) == files[path] # "absent"

\* A new invocation: what the one before wrote is now old
Aged == [p \in DOMAIN files |-> IF files[p] = "new" THEN "old" ELSE files[p]]

\* Lines 58-75: the call and its validations
Validate ==
  /\ pc = "idle"
  /\ \E s \in Suites : \E e \in EnvChoices(s) :
       /\ suite' = s
       /\ env' = e
       /\ error' = Validations(e)
       /\ pc' = IF Validations(e) = NoError THEN "validated" ELSE "raised"
  /\ files' = Aged
  /\ response' = NoResponse
  /\ UNCHANGED <<parsed, pdf, pdf_df, bank_files, bank_df, pdf_hits_df, mis_df,
                 consolidated_result, outstanding, wb, inpat_to_claim, patnm_to_claim,
                 claim_to_settled_amount, update_found, result>>

\* The emptiness test left out
NoTablesUnchecked(rows) == FALSE

\* if not all_rows
NoTables(rows) == rows = <<>>

\* Lines 77-101: the PDF to pdf_df
ExtractPdf ==
  /\ pc = "validated"
  /\ \E pages \in PdfChoices(suite) :
       /\ pdf' = pages
       /\ LET rows == all_rows(pages)
          IN  IF NoTables(rows)
              THEN /\ error' = Raised("ValueError", "No tables found in PDF.")
                   /\ pc' = "raised"
                   /\ pdf_df' = <<>>
              ELSE IF rows = <<>>
              THEN /\ error' = Raised("IndexError", "all_rows[0]")
                   /\ pc' = "raised"
                   /\ pdf_df' = <<>>
              ELSE LET columns == [c \in 1..Len(Head(rows)) |-> NormalizeColumn(Head(rows)[c])]
                   IN  IF ~({c_Msg_Refer_No, c_Refer_No} \subseteq Range(columns))
                       THEN /\ error' = Raised("ValueError", "Missing one or more required columns")
                            /\ pc' = "raised"
                            /\ pdf_df' = <<>>
                       ELSE /\ error' = NoError
                            /\ pc' = "extracted"
                            /\ pdf_df' = FilterStatement(columns, Tail(rows))
  /\ parsed' = parsed \cup {"pdf"}
  /\ UNCHANGED <<files, suite, env, bank_files, bank_df, pdf_hits_df, mis_df,
                 consolidated_result, outstanding, wb, inpat_to_claim, patnm_to_claim,
                 claim_to_settled_amount, update_found, result, response>>

\* Lines 103-118: the bank files to bank_df, and the matcher's loop
LoadBankAndMatch ==
  /\ pc = "extracted"
  /\ \E fs \in BankChoices(suite) :
       /\ bank_files' = fs
       /\ bank_df' = LoadBank(fs)
       /\ pdf_hits_df' = MatchLedger(pdf_df, LoadBank(fs))
  /\ parsed' = parsed \cup {"bank"}
  /\ pc' = "matched"
  /\ UNCHANGED <<files, error, suite, env, pdf, pdf_df, mis_df, consolidated_result,
                 outstanding, wb, inpat_to_claim, patnm_to_claim,
                 claim_to_settled_amount, update_found, result, response>>

\* Lines 120-121: no chunk matched, the consolidated result is empty
NoMatches ==
  /\ pc = "matched"
  /\ pdf_hits_df = <<>>
  /\ consolidated_result' = <<>>
  /\ pc' = "linked"
  /\ UNCHANGED <<files, error, suite, env, parsed, pdf, pdf_df, bank_files, bank_df,
                 pdf_hits_df, mis_df, outstanding, wb, inpat_to_claim, patnm_to_claim,
                 claim_to_settled_amount, update_found, result, response>>

\* Lines 122-140: the two merges, and the consolidated file written
LinkClaims ==
  /\ pc = "matched"
  /\ pdf_hits_df # <<>>
  /\ \E mis \in MisChoices(suite) :
       /\ mis_df' = mis
       /\ consolidated_result' = LinkMis(MergeStatement(pdf_hits_df, pdf_df), CleanMis(mis))
  /\ parsed' = parsed \cup {"mis"}
  /\ files' = [files EXCEPT ![consolidated_output_path] = "new"]
  /\ pc' = "linked"
  /\ UNCHANGED <<error, suite, env, pdf, pdf_df, bank_files, bank_df, pdf_hits_df,
                 outstanding, wb, inpat_to_claim, patnm_to_claim,
                 claim_to_settled_amount, update_found, result, response>>

\* wb.save(...) outside the if
SavesAlways(found) == TRUE

\* if update_found: wb.save(...)
Saves(found) == found

\* Lines 142-189: the three indices, the loop over the sheets, the save
Annotate ==
  /\ pc = "linked"
  /\ \E book \in OutChoices(suite) :
       LET inpat    == inpat_index(consolidated_result)
           patnm_to == patnm_index(consolidated_result)
           settled  == settled_index(consolidated_result)
           found    == \E i \in 1..Len(book) : Updates(book[i], inpat, patnm_to, settled) # {}
       IN  /\ outstanding' = book
           /\ inpat_to_claim' = inpat
           /\ patnm_to_claim' = patnm_to
           /\ claim_to_settled_amount' = settled
           /\ wb' = [i \in 1..Len(book) |-> AnnotateSheet(book[i], inpat, patnm_to, settled)]
           /\ update_found' = found
           /\ files' = IF Saves(found)
                       THEN [files EXCEPT ![updated_outstanding_path] = "new"]
                       ELSE files
  /\ parsed' = parsed \cup {"outstanding"}
  /\ pc' = "annotated"
  /\ UNCHANGED <<error, suite, env, pdf, pdf_df, bank_files, bank_df, pdf_hits_df,
                 mis_df, consolidated_result, result, response>>

\* "consolidated_written": the path if a file is there
ConsolidatedWritten ==
  IF exists(consolidated_output_path) THEN consolidated_output_path ELSE NoPath

\* "updated_outstanding_written"
UpdatedWritten ==
  IF update_found /\ exists(updated_outstanding_path)
  THEN updated_outstanding_path ELSE NoPath

\* Lines 191-195: the result
Return ==
  /\ pc = "annotated"
  /\ result' = [matches_found |-> Len(consolidated_result),
                consolidated_written |-> ConsolidatedWritten,
                updated_outstanding_written |-> UpdatedWritten]
  /\ pc' = "returned"
  /\ UNCHANGED <<files, error, suite, env, parsed, pdf, pdf_df, bank_files, bank_df,
                 pdf_hits_df, mis_df, consolidated_result, outstanding, wb,
                 inpat_to_claim, patnm_to_claim, claim_to_settled_amount, update_found,
                 response>>

\* The artifact URL the caller gives for a result field
Artifact(written, url) == IF written # NoPath THEN url ELSE NoPath

\* pdf_recon, lines 70-84: the caller answers 200 with the summary and the
\* artifacts of the result, or 400 for an exception.  The invocation is
\* over and its locals are gone.
Respond ==
  /\ pc \in {"returned", "raised"}
  /\ response' =
       IF pc = "returned"
       THEN [status |-> 200, matches_found |-> result.matches_found,
             artifacts |-> <<Artifact(result.consolidated_written,
                                      "/files/joined_output.xlsx"),
                             Artifact(result.updated_outstanding_written,
                                      "/files/outstanding_report_UPDATED.xlsx")>>]
       ELSE [status |-> 400, matches_found |-> 0, artifacts |-> <<>>]
  /\ pc' = "idle"
  /\ error' = NoError
  /\ parsed' = {}
  /\ pdf' = <<>>
  /\ pdf_df' = <<>>
  /\ bank_files' = <<>>
  /\ bank_df' = <<>>
  /\ pdf_hits_df' = <<>>
  /\ mis_df' = <<>>
  /\ consolidated_result' = <<>>
  /\ outstanding' = <<>>
  /\ wb' = <<>>
  /\ inpat_to_claim' = <<>>
  /\ patnm_to_claim' = <<>>
  /\ claim_to_settled_amount' = <<>>
  /\ update_found' = FALSE
  /\ result' = NoResult
  /\ suite' = "pre"
  /\ env' = OkEnv
  /\ UNCHANGED files

Next ==
  \/ Validate
  \/ ExtractPdf
  \/ LoadBankAndMatch
  \/ NoMatches
  \/ LinkClaims
  \/ Annotate
  \/ Return
  \/ Respond

Spec == Init /\ [][Next]_vars

(***************************************************************************)
(* Properties                                                              *)
(***************************************************************************)
running == pc # "idle"

WroteNothing == \A p \in DOMAIN files : files[p] # "new"

\* The preconditions of run_recon_pipeline, as its contract lists them
InputOk(p, suffixes) == p.exists /\ p.is_file /\ lower(p.suffix) \in suffixes

PreOk(e) ==
  /\ InputOk(e.pdf_path, {s_pdf})
  /\ Len(e.bank_file_paths) > 0
  /\ \A i \in 1..Len(e.bank_file_paths) :
       InputOk(e.bank_file_paths[i], {s_xlsx, lower(s_XLS), <<".","x","l","s","m">>})
  /\ InputOk(e.mis_file_path, {s_xlsx, lower(s_XLS), <<".","x","l","s","m">>})
  /\ InputOk(e.outstanding_file_path, {s_xlsx, lower(s_XLS), <<".","x","l","s","m">>})
  /\ e.consolidated_parent.exists /\ e.consolidated_parent.writable
  /\ e.updated_parent.exists /\ e.updated_parent.writable

\* C9: an invocation whose preconditions do not all hold raises an error
\* with no input parsed and no output file written.
C9_PreconditionsFirst ==
  running /\ ~PreOk(env) =>
    pc = "raised" /\ error # NoError /\ parsed = {} /\ WroteNothing

\* An invocation rejected by the last check made, the writable parent of
\* the updated-outstanding path, every input being in order
C9_Witness ==
  /\ pc = "raised" /\ parsed = {}
  /\ ~env.updated_parent.writable
  /\ PreOk([env EXCEPT !.updated_parent = OkDir])

\* No page of the PDF gives a table row
ZeroRows(pages) == \A i \in 1..Len(pages) : pages[i] = <<>>

\* C6: when the PDF's pages hold no table row at all, the invocation raises
\* "No tables found in PDF." having read nothing but the PDF and having
\* written no output file.
C6_NoTablesFailsFirst ==
  running /\ "pdf" \in parsed /\ ZeroRows(pdf) =>
    /\ pc = "raised"
    /\ error = Raised("ValueError", "No tables found in PDF.")
    /\ parsed = {"pdf"}
    /\ WroteNothing

C6_Witness ==
  /\ pc = "raised" /\ "pdf" \in parsed
  /\ Len(pdf) = 2 /\ ZeroRows(pdf)

\* C4 as stated: after an invocation that updated no outstanding row the
\* result names no updated-outstanding file and no file exists at that path.
C4_NoFileExists ==
  pc = "returned" /\ wb = outstanding =>
    /\ result.updated_outstanding_written = NoPath
    /\ ~exists(updated_outstanding_path)

\* C4 amended: after an invocation that updated no outstanding row the
\* result names no updated-outstanding file and the invocation has written
\* no file at that path; a file an earlier invocation left there stays.
C4_NoFileWritten ==
  pc = "returned" /\ wb = outstanding =>
    /\ result.updated_outstanding_written = NoPath
    /\ files[updated_outstanding_path] # "new"

\* An invocation without an update that follows one that saved the workbook
C4_Witness ==
  /\ pc = "returned" /\ wb = outstanding
  /\ files[updated_outstanding_path] = "old"

\* C10: consolidated_written is the consolidated output path exactly when
\* this invocation wrote the consolidated table; with zero matches it is
\* None and matches_found is 0.
C10_WrittenIffWrote ==
  pc = "returned" =>
    /\ (result.consolidated_written = consolidated_output_path
          <=> files[consolidated_output_path] = "new")
    /\ (pdf_hits_df = <<>> =>
          result.consolidated_written = NoPath /\ result.matches_found = 0)

\* The key the contract gives a consolidated field: uppercased and trimmed
UpperTrimmed(x) == IF isna(x) THEN <<>> ELSE upper(strip(x))

InpatKeys == [i \in 1..Len(consolidated_result) |->
                UpperTrimmed(consolidated_result[i].In_Patient_Number)]

NameKeys == [i \in 1..Len(consolidated_result) |->
               UpperTrimmed(consolidated_result[i].Patient_Name)]

ClaimKeys == [i \in 1..Len(consolidated_result) |->
                UpperTrimmed(consolidated_result[i].Claim_Number)]

ClaimVals == [i \in 1..Len(consolidated_result) |-> consolidated_result[i].Claim_Number]

SettledVals == [i \in 1..Len(consolidated_result) |->
                  safe_float_val(consolidated_result[i].Settled_Amount)]

\* The last row that gives key k
LastRow(keys, k) ==
  CHOOSE i \in 1..Len(keys) : keys[i] = k /\ \A j \in (i + 1)..Len(keys) : keys[j] # k

\* index holds the keys of all rows and, for each, the value of the last row
LastRowWins(index, keys, vals) ==
  /\ DOMAIN index = Range(keys)
  /\ \A k \in Range(keys) : index[k] = vals[LastRow(keys, k)]

\* The cells of the workbook the annotator has written: sheet, row, column
Written ==
  {c \in UNION {{<<s, r, k>> : r \in 1..Len(wb[s]), k \in 1..Len(wb[s][1])} :
                  s \in 1..Len(wb)} :
     wb[c[1]][c[2]][c[3]] # outstanding[c[1]][c[2]][c[3]]}

\* A cell of the row of the input workbook that cell c lies in
RowCell(c, name) ==
  outstanding[c[1]][c[2]][ColumnIndex(HeaderOf(outstanding[c[1]]), name)].value

\* C8: each index is keyed by the uppercased and trimmed field, the last
\* consolidated row of a key gives its value, and a claim number the
\* annotator writes is the one the last rows give for the row's CR No and
\* for its Patient Name.
C8_LastRowWins ==
  pc \in {"annotated", "returned"} =>
    /\ LastRowWins(inpat_to_claim, InpatKeys, ClaimVals)
    /\ LastRowWins(patnm_to_claim, NameKeys, ClaimVals)
    /\ LastRowWins(claim_to_settled_amount, ClaimKeys, SettledVals)
    /\ \A c \in Written :
         /\ UpperTrimmed(RowCell(c, c_CR_No)) \in Range(InpatKeys)
         /\ UpperTrimmed(RowCell(c, c_Patient_Name)) \in Range(NameKeys)
         /\ wb[c[1]][c[2]][c[3]].value =
              ClaimVals[LastRow(InpatKeys, UpperTrimmed(RowCell(c, c_CR_No)))]
         /\ wb[c[1]][c[2]][c[3]].value =
              ClaimVals[LastRow(NameKeys, UpperTrimmed(RowCell(c, c_Patient_Name)))]

\* Two consolidated rows give one in-patient key and different claims, and
\* the annotator has written the claim of the second
C8_Witness ==
  /\ pc = "annotated"
  /\ Len(consolidated_result) = 2
  /\ InpatKeys[1] = InpatKeys[2]
  /\ ClaimVals[1] # ClaimVals[2]
  /\ \E c \in Written : wb[c[1]][c[2]][c[3]].value = ClaimVals[2]

\* The rows of the input workbook, as the annotator would judge them by
\* their own cells
Accepted(c) ==
  Truthy(MatchClaim(safe_upper_strip(RowCell(c, c_CR_No)),
                    safe_upper_strip(RowCell(c, c_Patient_Name)),
                    safe_float_val(RowCell(c, c_Balance)),
                    inpat_to_claim, patnm_to_claim, claim_to_settled_amount))

SameShape(a, b) ==
  /\ Len(a) = Len(b)
  /\ \A s \in 1..Len(a) :
       /\ Len(a[s]) = Len(b[s])
       /\ \A r \in 1..Len(a[s]) : Len(a[s][r]) = Len(b[s][r])

\* C2: the workbook the annotator holds has the sheets, rows and columns of
\* the input in the same order, and a cell that differs from the input is
\* the Claim No cell of a row under the header whose Claim No was blank and
\* which is itself accepted as a match.
C2_OnlyBlankClaimCells ==
  pc \in {"annotated", "returned"} =>
    /\ SameShape(wb, outstanding)
    /\ \A c \in Written :
         /\ c[2] > 1
         /\ HasColumns(outstanding[c[1]])
         /\ HeaderOf(outstanding[c[1]])[c[3]] = c_Claim_No
         /\ IsBlankClaim(outstanding[c[1]][c[2]][c[3]].value)
         /\ Accepted(c)

\* A sheet where the second row is written and the first, equal to it but
\* for the claim number it already holds, is not
C2_Witness ==
  /\ pc = "annotated"
  /\ \E c \in Written :
       /\ c[2] = 3
       /\ ~IsBlankClaim(RowCell(<<c[1], 2, c[3]>>, c_Claim_No))
       /\ Accepted(<<c[1], 2, c[3]>>)
       /\ wb[c[1]][2] = outstanding[c[1]][2]

\* |a - b| < 1/100 for the exact difference of two doubles: with
\* a - b = n * 2^e, whether 100 * n * 2^e < 1
BelowHundredth(a, b) ==
  LET d  == ExactSub(a, b)
      x6 == Zeros(1) \o d.bits \o Zeros(6)
      x5 == Zeros(2) \o d.bits \o Zeros(5)
      x2 == Zeros(5) \o d.bits \o Zeros(2)
      p  == StripZeros(AddBits(AddBits(x6, x5, 0), x2, 0))
  IN  Len(p) + d.e <= 0

\* The five conditions of a match for the row of cell c
CrClaim(c) == inpat_to_claim[UpperTrimmed(RowCell(c, c_CR_No))]

NameClaim(c) == patnm_to_claim[UpperTrimmed(RowCell(c, c_Patient_Name))]

SettledOf(claim) ==
  IF UpperTrimmed(claim) \in DOMAIN claim_to_settled_amount
  THEN claim_to_settled_amount[UpperTrimmed(claim)] ELSE None

FiveConditions(c) ==
  /\ UpperTrimmed(RowCell(c, c_CR_No)) \in DOMAIN inpat_to_claim
  /\ UpperTrimmed(RowCell(c, c_Patient_Name)) \in DOMAIN patnm_to_claim
  /\ CrClaim(c) = NameClaim(c)
  /\ SettledOf(CrClaim(c)) # None
  /\ safe_float_val(RowCell(c, c_Balance)) # None
  /\ BelowHundredth(SettledOf(CrClaim(c)), safe_float_val(RowCell(c, c_Balance)))

\* C1: a row the annotator writes satisfies all five conditions; a row
\* whose two lookups give different claim numbers is not written.
C1_OnlyIfAllFive ==
  pc \in {"annotated", "returned"} => \A c \in Written : FiveConditions(c)

\* One row is written, and a row with a blank Claim No whose lookups give
\* different claims, each settled at the row's balance, is as it was
C1_Witness ==
  /\ pc = "annotated"
  /\ \E c \in Written : \E r \in 2..Len(wb[c[1]]) :
       LET o == <<c[1], r, c[3]>>
       IN  /\ wb[c[1]][r] = outstanding[c[1]][r]
           /\ IsBlankClaim(RowCell(o, c_Claim_No))
           /\ UpperTrimmed(RowCell(o, c_CR_No)) \in DOMAIN inpat_to_claim
           /\ UpperTrimmed(RowCell(o, c_Patient_Name)) \in DOMAIN patnm_to_claim
           /\ CrClaim(o) # NameClaim(o)
           /\ SettledOf(CrClaim(o)) # None /\ SettledOf(NameClaim(o)) # None
           /\ safe_float_val(RowCell(o, c_Balance)) # None
           /\ BelowHundredth(SettledOf(CrClaim(o)), safe_float_val(RowCell(o, c_Balance)))
           /\ BelowHundredth(SettledOf(NameClaim(o)), safe_float_val(RowCell(o, c_Balance)))

\* An amount cell read as a decimal: null when missing, blank or no number,
\* else its value in millionths
Decimal(cell) == IF isna(cell) THEN [ok |-> FALSE]
                 ELSE ParseDecimal(strip(RemoveChar(cell, ",")))

IsNull(cell) == ~Decimal(cell).ok

Millionths(cell) ==
  LET p == Decimal(cell)
      v == p.num * Pow10(6 - p.scale)
  IN  IF p.neg THEN 0 - v ELSE v

\* |a - b| of two amount cells, in millionths
AmountGap(a, b) ==
  IF Millionths(a) >= Millionths(b)
  THEN Millionths(a) - Millionths(b) ELSE Millionths(b) - Millionths(a)

\* The blank-claim rows of the sheets that have the four columns, each
\* named by its Claim No cell
OpenRows ==
  {c \in UNION {{<<s, r, ColumnIndex(HeaderOf(outstanding[s]), c_Claim_No)>> :
                   r \in 2..Len(outstanding[s])} :
                  s \in {t \in 1..Len(outstanding) : HasColumns(outstanding[t])}} :
     IsBlankClaim(outstanding[c[1]][c[2]][c[3]].value)}

\* Conditions (a) to (c) hold of the row of c and its claim is a key of the
\* settled-amount index
Resolves(c) ==
  /\ UpperTrimmed(RowCell(c, c_CR_No)) \in DOMAIN inpat_to_claim
  /\ UpperTrimmed(RowCell(c, c_Patient_Name)) \in DOMAIN patnm_to_claim
  /\ CrClaim(c) = NameClaim(c)
  /\ ~isna(CrClaim(c)) /\ CrClaim(c) # <<>>
  /\ CrClaim(c) \in DOMAIN claim_to_settled_amount

\* The Settled Amount cell behind the index entry of the row's claim
SettledCell(c) ==
  consolidated_result[LastRow(ClaimKeys, CrClaim(c))].Settled_Amount

\* C7: of a row that resolves to one claim, a settled amount and a balance
\* 0.01 apart do not match, 0.009999 apart match, and a null settled amount
\* or balance does not match.
C7_ToleranceBoundary ==
  pc \in {"annotated", "returned"} =>
    \A c \in {o \in OpenRows : Resolves(o)} :
      LET settled == SettledCell(c)
          balance == RowCell(c, c_Balance)
      IN  IF IsNull(settled) \/ IsNull(balance) THEN c \notin Written
          ELSE /\ AmountGap(settled, balance) = 10000 => c \notin Written
               /\ AmountGap(settled, balance) = 9999 => c \in Written

NonBlank(x) == ~isna(x) /\ strip(x) # <<>>

\* C3: with one consolidated record (C, I, N, S), a blank-claim row with
\* CR No I and Patient Name N, case and padding aside, and a balance less
\* than 0.01 from S ends with Claim No C, filled cyan, and the result names
\* the updated-outstanding path.
C3_SingleRecordAnnotates ==
  pc = "returned" /\ Len(consolidated_result) = 1
    /\ NonBlank(ClaimVals[1])
    /\ NonBlank(consolidated_result[1].In_Patient_Number)
    /\ NonBlank(consolidated_result[1].Patient_Name) =>
    \A c \in OpenRows :
      LET settled == consolidated_result[1].Settled_Amount
          balance == RowCell(c, c_Balance)
      IN  /\ UpperTrimmed(RowCell(c, c_CR_No)) = InpatKeys[1]
          /\ UpperTrimmed(RowCell(c, c_Patient_Name)) = NameKeys[1]
          /\ ~IsNull(settled) /\ ~IsNull(balance)
          /\ AmountGap(settled, balance) < 10000
          => /\ wb[c[1]][c[2]][c[3]] = [value |-> ClaimVals[1], fill |-> cyan_fill]
             /\ result.updated_outstanding_written = updated_outstanding_path

\* The ledger entries, statement rows and MIS rows as the sources give them
LedgerEntries == Flatten(bank_files)

StatementRows ==
  IF all_rows(pdf) = <<>> THEN <<>>
  ELSE LET columns == [c \in 1..Len(Head(all_rows(pdf))) |->
                         NormalizeColumn(Head(all_rows(pdf))[c])]
           rows    == Tail(all_rows(pdf))
       IN  [i \in 1..Len(rows) |->
              [Msg_Refer_No |-> rows[i][ColumnIndex(columns, c_Msg_Refer_No)],
               Refer_No |-> rows[i][ColumnIndex(columns, c_Refer_No)]]]

\* The chain the contract describes: ledger entry l, statement row s, MIS
\* row m
Chains(l, s, m) ==
  /\ NonBlank(s.Refer_No) /\ contains(s.Refer_No, c_XUTR)
  /\ NonBlank(s.Msg_Refer_No)
  /\ ~isna(l.Description) /\ contains(l.Description, s.Msg_Refer_No)
  /\ NonBlank(m.UTR_No)
  /\ m.UTR_No = StripMarker(s.Refer_No)

Triples ==
  {t \in (1..Len(LedgerEntries)) \X (1..Len(StatementRows)) \X (1..Len(mis_df)) :
     Chains(LedgerEntries[t[1]], StatementRows[t[2]], mis_df[t[3]])}

\* The consolidated row of a triple, and of a row of the table, less the
\* ledger's Description
ChainRow(t) ==
  <<LedgerEntries[t[1]].Transaction_ID, StatementRows[t[2]].Msg_Refer_No,
    StripMarker(StatementRows[t[2]].Refer_No), mis_df[t[3]]>>

TableRow(i) ==
  LET c == consolidated_result[i]
  IN  <<c.Transaction_ID, c.Msg_Refer_No, c.Refer_No,
        Mis(c.UTR_No, c.Claim_Number, c.In_Patient_Number, c.Patient_Name,
            c.Settled_Amount)>>

\* C5: matches_found is the row count of the consolidated table, and the
\* table holds each row as often as there are triples that chain to it.
C5_OneRowPerTriple ==
  pc = "returned" =>
    /\ result.matches_found = Len(consolidated_result)
    /\ Len(consolidated_result) = Cardinality(Triples)
    /\ \A i \in 1..Len(consolidated_result) :
         Cardinality({j \in 1..Len(consolidated_result) : TableRow(j) = TableRow(i)})
           = Cardinality({t \in Triples : ChainRow(t) = TableRow(i)})

=============================================================================
